---- MODULE Spec2Model ----
(***************************************************************************)
(* radial: the task/goal lifecycle engine over a shared store.             *)
(*                                                                         *)
(* The store is one SQLite database (src/src/db.rs).  Every command is a   *)
(* short-lived process that issues a sequence of SQL statements with no    *)
(* enclosing transaction, so the unit of atomicity is ONE statement: one   *)
(* action of this model is one statement of one process, together with the *)
(* local computation that follows it up to the next statement.             *)
(*                                                                         *)
(* Abstractions: ids are allocated 1, 2, 3, ... in creation order (so      *)
(* ORDER BY created_at ASC is index order); timestamps other than the      *)
(* presence of completed_at, descriptions, goal metrics and parent_id are  *)
(* not represented (no lifecycle decision reads them).  Option<T> is the   *)
(* sequence <<>> (None) or <<x>> (Some(x)).  Bulk removal (clean) is not   *)
(* modelled: rows are never deleted.                                       *)
(*                                                                         *)
(* The actions are the code; the bounds that keep the state space finite   *)
(* are conjoined in Next, not in the actions.  `reply` is an event         *)
(* variable: a step that ends a command sets it to what the command        *)
(* reported, and the caller consumes it (Ack) before the next statement    *)
(* of any process runs.                                                    *)
(*                                                                         *)
(* The helpers topo_sort (commands/list.rs) and find_similar_id            *)
(* (helpers.rs) are pure functions: `call` holds one call of a helper,     *)
(* its arguments drawn by InitTopo and InitSimilar, and one action is one  *)
(* turn of the helper's loop.  `started` is a history variable: the        *)
(* number of starts reported as a success, per task; only AckNoted         *)
(* changes it.                                                             *)
(***************************************************************************)
EXTENDS Integers, Sequences, FiniteSets, Bags, TLC

\* ---------------------------------------------------------------- bounds

\* Spec: every command.  Tasks created, retries performed (sum of the stored
\* retry counts) and edit commands issued in a run.
MaxTasks == 2

MaxRetry == 1

MaxEdits == 1

\* SpecEdit: create, start, complete and edit; racing edits.
MaxEditTasks == 2

MaxRacingEdits == 2

\* SpecCascade: create, start, complete and fail; dependents with two blockers.
\* SpecCascadeEdit: create, start, complete and edits that run uninterrupted.
MaxCascadeTasks == 3

MaxCascadeEdits == 1

\* SpecCascadeRetry: create, start, complete, fail and retry.
MaxCascadeRetry == 1

\* SpecChain: create, then start and complete; a dependent of a dependent.
MaxChainTasks == 4

\* SpecGoals: create, start and complete in two goals of one store.
MaxSharedGoals == 2

MaxSharedTasks == 2

\* SpecCrash: commands one at a time, a complete may stop half-way.
MaxCrashTasks == 3

\* SpecTopo: topo_sort on every list of at most MaxTopoTasks tasks, in every
\* order, each blocked_by a list of at most MaxTopoBlockers ids, of which
\* the id MaxTopoTasks + 1 is never in the listed set.
MaxTopoTasks == 3

MaxTopoBlockers == 2

\* Goals of every other specification.
MaxGoals == 1

\* The concurrent command invocations (OS processes) that share the store.
Procs == {"p1", "p2"}

VARIABLES
    goals,      \* table goals: sequence of rows, index = id
    tasks,      \* table tasks: sequence of rows, index = id = creation order
    proc,       \* per process: program counter and local variables
    reply,      \* what the step just taken reported to its caller, if it returned
    edits,      \* number of edit commands issued so far (bounds the run)
    call,       \* the call of a helper function in progress: its arguments,
                \* its local variables and, at the end, what it returns
    started     \* history: the bag of the ids of the tasks whose start a
                \* caller has seen reported as a success

vars == <<goals, tasks, proc, reply, edits, call, started>>

\* SpecSimilar: identifiers of up to MaxIdLen characters, up to MaxCandidates
\* candidates in a call of find_similar_id.
MaxIdLen == 3

MaxCandidates == 3

\* SpecSerial: every command, one at a time.
MaxSerialTasks == 2

MaxSerialEdits == 1

MaxSerialRetry == 1

\* SpecScenario: tasks created without a contract, the contract set by edit.
MaxScenarioTasks == 2

MaxScenarioEdits == 1

\* SpecStarts: start, complete, fail and retry on tasks created beforehand,
\* with the count of the starts reported as successes.
MaxStartsTasks == 3

MaxStartsRetry == 1

\* SpecRace: create, start, complete, fail and retry on two tasks, no edit.
MaxRaceTasks == 2

MaxRaceRetry == 1

\* SpecLive: the tasks of one goal, each with a contract, all created before
\* the first start; start and complete, under fairness.
MaxLiveTasks == 2

\* ---------------------------------------------------------------- Option

None == <<>>

Some(x) == <<x>>

is_some(o) == o # <<>>

is_none(o) == o = <<>>

unwrap(o) == o[1]

\* ---------------------------------------------------------------- helpers

Range(s) == {s[i] : i \in DOMAIN s}

contains(s, x) == \E i \in DOMAIN s : s[i] = x

TaskIds == 1..MaxChainTasks

GoalIds == 1..MaxGoals

\* Argument values for --blocked-by: lists of ids (existing or not), in
\* ascending order and without repetition, of length 0, 1 or 2.
BlockedByLists ==
    {<<>>} \cup {<<a>> : a \in TaskIds}
           \cup {l \in TaskIds \X TaskIds : l[1] < l[2]}

ContractArgs == {None, Some("contract")}

\* complete's --result/--artifacts/--tokens/--elapsed: one representative
\* argument vector, with optional arguments both present and absent.
CompleteArgs ==
    { [summary |-> "done", artifacts |-> None, tokens |-> Some(7), elapsed |-> None] }

unwrap_or(o, d) == IF is_some(o) THEN unwrap(o) ELSE d

\* ---------------------------------------------------------------- store reads

get_goal(id) == IF id \in DOMAIN goals THEN Some(goals[id]) ELSE None

get_task(id) == IF id \in DOMAIN tasks THEN Some(tasks[id]) ELSE None

list_tasks(goal_id) == SelectSeq(tasks, LAMBDA t : t.goal_id = goal_id)

\* ---------------------------------------------------------------- process locals

Idle ==
    [pc |-> "idle", task_id |-> 0, blocked_by |-> None,
     task |-> None, goal |-> None, all_tasks |-> <<>>, idx |-> 0,
     unblocked |-> <<>>,
     was_last |-> FALSE,   \* history: see CompleteTask
     rollup |-> "none"]    \* history: see CompleteRefresh

NoReply == [cmd |-> "none", id |-> 0, status |-> "none", ids |-> <<>>]

\* No helper function is being called.
NoCall == [fn |-> "none"]

\* The command of process p ends and reports `status` (Ok(()) or an Err).
Return(p, cmd, id, status, ids) ==
    /\ reply = NoReply
    /\ proc' = [proc EXCEPT ![p] = Idle]
    /\ reply' = [cmd |-> cmd, id |-> id, status |-> status, ids |-> ids]
    /\ edits' = edits
    /\ call' = call
    /\ started' = started

\* The command of process p goes on to its next statement.
Goto(p, locals) ==
    /\ reply = NoReply
    /\ proc' = [proc EXCEPT ![p] = locals]
    /\ reply' = NoReply
    /\ edits' = edits
    /\ call' = call
    /\ started' = started

Init ==
    /\ goals = <<>>
    /\ tasks = <<>>
    /\ proc = [p \in Procs |-> Idle]
    /\ reply = NoReply
    /\ edits = 0
    /\ started = EmptyBag
    /\ call = NoCall

\* The caller has read the report of the command that just ended.
Ack ==
    /\ reply # NoReply
    /\ reply' = NoReply
    /\ UNCHANGED <<goals, tasks, proc, edits, call, started>>

\* The caller has read the report of the command that just ended and counts,
\* per task, the starts that were reported as a success (history only).
AckNoted ==
    /\ reply # NoReply
    /\ reply' = NoReply
    /\ started' = IF reply.cmd = "start" /\ reply.status = "ok"
                  THEN started (+) SetToBag({reply.id}) ELSE started
    /\ UNCHANGED <<goals, tasks, proc, edits, call>>

\* ---------------------------------------------------------------- goal create

\* commands/goal.rs create: one INSERT of a Pending goal.
GoalCreate(p) ==
    /\ proc[p].pc = "idle"
    /\ goals' = Append(goals, [id |-> Len(goals) + 1, state |-> "Pending",
                               completed_at |-> None])
    /\ Return(p, "goal_create", Len(goals) + 1, "ok", <<>>)
    /\ UNCHANGED tasks

\* ---------------------------------------------------------------- task create

CreatesInFlight ==
    Cardinality({q \in Procs : proc[q].pc \in {"create_validate", "create_insert"}})

\* task.rs 19-36: get_goal; NotFound when the goal does not exist.  Whether
\* --blocked-by was given decides if the validation query runs at all.
TaskCreateGetGoal(p, goal_id, has_blocked_by) ==
    /\ proc[p].pc = "idle"
    /\ UNCHANGED <<goals, tasks>>
    /\ LET goal == get_goal(goal_id) IN
       IF is_none(goal)
       THEN Return(p, "create", goal_id, "not_found", <<>>)
       ELSE Goto(p, [Idle EXCEPT
                       !.pc = IF has_blocked_by THEN "create_validate"
                              ELSE "create_insert",
                       !.goal = goal])

\* Faulty variant of TaskCreateValidate: the ids are looked up among the
\* tasks of every goal.
TaskCreateValidateAnyGoal(p, task_ids) ==
    /\ proc[p].pc = "create_validate"
    /\ UNCHANGED <<goals, tasks>>
    /\ LET existing_task_ids == {tasks[i].id : i \in DOMAIN tasks}
       IN IF \E i \in DOMAIN task_ids : task_ids[i] \notin existing_task_ids
          THEN Return(p, "create", unwrap(proc[p].goal).id, "validation", <<>>)
          ELSE Goto(p, [proc[p] EXCEPT !.pc = "create_insert",
                                       !.blocked_by = Some(task_ids)])

\* Faulty variant of TaskCreateValidate: the ids are not looked up at all.
TaskCreateValidateUnchecked(p, task_ids) ==
    /\ proc[p].pc = "create_validate"
    /\ UNCHANGED <<goals, tasks>>
    /\ Goto(p, [proc[p] EXCEPT !.pc = "create_insert", !.blocked_by = Some(task_ids)])

\* task.rs 38-59: list_tasks of the goal; every blocked_by id must be there.
TaskCreateValidate(p, task_ids) ==
    /\ proc[p].pc = "create_validate"
    /\ UNCHANGED <<goals, tasks>>
    /\ LET all_tasks == list_tasks(unwrap(proc[p].goal).id)
           existing_task_ids == {all_tasks[i].id : i \in DOMAIN all_tasks}
       IN IF \E i \in DOMAIN task_ids : task_ids[i] \notin existing_task_ids
          THEN Return(p, "create", unwrap(proc[p].goal).id, "validation", <<>>)
          ELSE Goto(p, [proc[p] EXCEPT !.pc = "create_insert",
                                       !.blocked_by = Some(task_ids)])

\* Faulty variant of NewTask: a task whose blockers are all Completed already
\* is created Pending.
NewTaskUnblocked(id, goal_id, contract, blocked_by) ==
    [id |-> id, goal_id |-> goal_id, contract |-> contract,
     state |-> IF /\ is_some(blocked_by)
                  /\ \E b \in Range(unwrap(blocked_by)) :
                        b \notin DOMAIN tasks \/ tasks[b].state # "Completed"
               THEN "Blocked" ELSE "Pending",
     blocked_by |-> blocked_by, result |-> None, completed_at |-> None,
     tokens |-> 0, elapsed_ms |-> 0, retry_count |-> 0]

\* task.rs 72-88: the new row.
NewTask(id, goal_id, contract, blocked_by) ==
    [id |-> id, goal_id |-> goal_id, contract |-> contract,
     state |-> IF is_some(blocked_by) THEN "Blocked" ELSE "Pending",
     blocked_by |-> blocked_by, result |-> None, completed_at |-> None,
     tokens |-> 0, elapsed_ms |-> 0, retry_count |-> 0]

\* task.rs 61-90: db.create_task (INSERT) of the row built from the arguments.
TaskCreateInsert(p, contract) ==
    /\ proc[p].pc = "create_insert"
    /\ LET task == NewTask(Len(tasks) + 1, unwrap(proc[p].goal).id,
                           contract, proc[p].blocked_by)
       IN /\ tasks' = Append(tasks, task)
          /\ Goto(p, [proc[p] EXCEPT !.pc = "create_update_goal", !.task_id = task.id,
                                     !.blocked_by = None])
    /\ UNCHANGED goals

\* db.rs 175-212: UPDATE goals SET <every column> WHERE id.
update_goal(goal) == [goals EXCEPT ![goal.id] = goal]

\* Faulty variant of TaskCreateUpdateGoal: a goal in any state is re-opened.
TaskCreateUpdateGoalReopen(p) ==
    /\ proc[p].pc = "create_update_goal"
    /\ LET goal == unwrap(proc[p].goal)
           updated_goal == [goal EXCEPT !.state = "InProgress", !.completed_at = None]
       IN goals' = update_goal(updated_goal)
    /\ Return(p, "create", proc[p].task_id, "ok", <<>>)
    /\ UNCHANGED tasks

\* task.rs 92-97: the goal copy read at the start is written back whole,
\* Pending promoted to InProgress.
TaskCreateUpdateGoal(p) ==
    /\ proc[p].pc = "create_update_goal"
    /\ LET goal == unwrap(proc[p].goal)
           updated_goal == IF goal.state = "Pending"
                           THEN [goal EXCEPT !.state = "InProgress"] ELSE goal
       IN goals' = update_goal(updated_goal)
    /\ Return(p, "create", proc[p].task_id, "ok", <<>>)
    /\ UNCHANGED tasks

\* ---------------------------------------------------------------- start

\* Faulty variant of transition_task_state: WHERE id alone.
transition_task_state_unguarded(task_id, from_state, to_state) ==
    IF task_id \in DOMAIN tasks
    THEN [rows |-> 1, tasks |-> [tasks EXCEPT ![task_id].state = to_state]]
    ELSE [rows |-> 0, tasks |-> tasks]

\* db.rs 430-448: UPDATE tasks SET state WHERE id AND state = from_state.
transition_task_state(task_id, from_state, to_state) ==
    IF task_id \in DOMAIN tasks /\ tasks[task_id].state = from_state
    THEN [rows |-> 1, tasks |-> [tasks EXCEPT ![task_id].state = to_state]]
    ELSE [rows |-> 0, tasks |-> tasks]

\* Faulty variant of StartGetTask: the state is checked before the contract.
StartGetTaskStateFirst(p, task_id) ==
    /\ proc[p].pc = "idle"
    /\ UNCHANGED <<goals, tasks>>
    /\ LET task == get_task(task_id) IN
       IF is_none(task)
       THEN Return(p, "start", task_id, "not_found", <<>>)
       ELSE IF unwrap(task).state = "Blocked" /\ is_some(unwrap(task).blocked_by)
       THEN Return(p, "start", task_id, "blocked", unwrap(unwrap(task).blocked_by))
       ELSE IF unwrap(task).state # "Pending"
       THEN Return(p, "start", task_id, "invalid_state", <<>>)
       ELSE IF is_none(unwrap(task).contract)
       THEN Return(p, "start", task_id, "no_contract", <<>>)
       ELSE Goto(p, [Idle EXCEPT !.pc = "start_cas", !.task_id = task_id])

\* Faulty variant of StartGetTask: a Blocked task gets the error of any other
\* wrong state, which names no blocker.
StartGetTaskGenericError(p, task_id) ==
    /\ proc[p].pc = "idle"
    /\ UNCHANGED <<goals, tasks>>
    /\ LET task == get_task(task_id) IN
       IF is_none(task)
       THEN Return(p, "start", task_id, "not_found", <<>>)
       ELSE IF is_none(unwrap(task).contract)
       THEN Return(p, "start", task_id, "no_contract", <<>>)
       ELSE IF unwrap(task).state # "Pending"
       THEN Return(p, "start", task_id, "invalid_state", <<>>)
       ELSE Goto(p, [Idle EXCEPT !.pc = "start_cas", !.task_id = task_id])

\* task.rs 160-206: get_task and the checks made on the copy.
StartGetTask(p, task_id) ==
    /\ proc[p].pc = "idle"
    /\ UNCHANGED <<goals, tasks>>
    /\ LET task == get_task(task_id) IN
       IF is_none(task)
       THEN Return(p, "start", task_id, "not_found", <<>>)
       ELSE IF is_none(unwrap(task).contract)
       THEN Return(p, "start", task_id, "no_contract", <<>>)
       ELSE IF unwrap(task).state = "Blocked" /\ is_some(unwrap(task).blocked_by)
       THEN Return(p, "start", task_id, "blocked", unwrap(unwrap(task).blocked_by))
       ELSE IF unwrap(task).state # "Pending"
       THEN Return(p, "start", task_id, "invalid_state", <<>>)
       ELSE Goto(p, [Idle EXCEPT !.pc = "start_cas", !.task_id = task_id])

\* Faulty variant of StartTransition: a started task waits for verification.
StartTransitionVerifying(p) ==
    /\ proc[p].pc = "start_cas"
    /\ LET r == transition_task_state(proc[p].task_id, "Pending", "Verifying") IN
       /\ tasks' = r.tasks
       /\ Return(p, "start", proc[p].task_id,
                 IF r.rows > 0 THEN "ok" ELSE "conflict", <<>>)
    /\ UNCHANGED goals

\* task.rs 208-225: the conditional write and its report.
StartTransition(p) ==
    /\ proc[p].pc = "start_cas"
    /\ LET r == transition_task_state(proc[p].task_id, "Pending", "InProgress") IN
       /\ tasks' = r.tasks
       /\ Return(p, "start", proc[p].task_id,
                 IF r.rows > 0 THEN "ok" ELSE "conflict", <<>>)
    /\ UNCHANGED goals

\* ---------------------------------------------------------------- complete

\* Faulty variant of complete_task: the UPDATE leaves the metrics columns out.
complete_task_without_metrics(task_id, result_summary, result_artifacts, tokens, elapsed_ms) ==
    IF task_id \in DOMAIN tasks /\ tasks[task_id].state = "InProgress"
    THEN [rows |-> 1,
          tasks |-> [tasks EXCEPT ![task_id] =
                       [@ EXCEPT !.state = "Completed",
                                 !.result = Some([summary |-> result_summary,
                                                  artifacts |-> result_artifacts]),
                                 !.completed_at = Some("now")]]]
    ELSE [rows |-> 0, tasks |-> tasks]

\* Faulty variant of complete_task: the UPDATE leaves the result columns out.
complete_task_without_result(task_id, result_summary, result_artifacts, tokens, elapsed_ms) ==
    IF task_id \in DOMAIN tasks /\ tasks[task_id].state = "InProgress"
    THEN [rows |-> 1,
          tasks |-> [tasks EXCEPT ![task_id] =
                       [@ EXCEPT !.state = "Completed",
                                 !.tokens = tokens,
                                 !.elapsed_ms = elapsed_ms,
                                 !.completed_at = Some("now")]]]
    ELSE [rows |-> 0, tasks |-> tasks]

\* db.rs 480-520: one UPDATE of state, result, metrics and completed_at,
\* WHERE id AND state = 'in_progress'.
complete_task(task_id, result_summary, result_artifacts, tokens, elapsed_ms) ==
    IF task_id \in DOMAIN tasks /\ tasks[task_id].state = "InProgress"
    THEN [rows |-> 1,
          tasks |-> [tasks EXCEPT ![task_id] =
                       [@ EXCEPT !.state = "Completed",
                                 !.result = Some([summary |-> result_summary,
                                                  artifacts |-> result_artifacts]),
                                 !.tokens = tokens,
                                 !.elapsed_ms = elapsed_ms,
                                 !.completed_at = Some("now")]]]
    ELSE [rows |-> 0, tasks |-> tasks]

\* db.rs 378-428: UPDATE tasks SET <every column but id, created_at> WHERE id.
update_task(task) ==
    IF task.id \in DOMAIN tasks THEN [tasks EXCEPT ![task.id] = task] ELSE tasks

\* task.rs 235-264: get_task and the state check made on the copy.
CompleteGetTask(p, task_id) ==
    /\ proc[p].pc = "idle"
    /\ UNCHANGED <<goals, tasks>>
    /\ LET task == get_task(task_id) IN
       IF is_none(task)
       THEN Return(p, "complete", task_id, "not_found", <<>>)
       ELSE IF unwrap(task).state # "InProgress"
       THEN Return(p, "complete", task_id, "invalid_state", <<>>)
       ELSE Goto(p, [Idle EXCEPT !.pc = "complete_cas", !.task_id = task_id])

\* Faulty variant of CompleteTask: the number of rows changed is not looked
\* at, so a lost race goes on to the cascade and the rollup.
CompleteTaskUnchecked(p, args) ==
    /\ proc[p].pc = "complete_cas"
    /\ LET r == complete_task(proc[p].task_id, args.summary,
                              unwrap_or(args.artifacts, <<>>),
                              unwrap_or(args.tokens, 0), unwrap_or(args.elapsed, 0))
       IN /\ tasks' = r.tasks
          /\ Goto(p, [proc[p] EXCEPT !.pc = "complete_refetch"])
    /\ UNCHANGED goals

\* Every task of the goal of task_id is Completed in the table ts.
GoalAllCompleted(ts, task_id) ==
    \A i \in DOMAIN ts : ts[i].goal_id = ts[task_id].goal_id => ts[i].state = "Completed"

\* task.rs 266-286: the conditional write; a lost race ends the command here.
\* was_last records (history only, the code keeps no such flag) that the write
\* completed the last task of its goal that was not yet Completed.
CompleteTask(p, args) ==
    /\ proc[p].pc = "complete_cas"
    /\ LET r == complete_task(proc[p].task_id, args.summary,
                              unwrap_or(args.artifacts, <<>>),
                              unwrap_or(args.tokens, 0), unwrap_or(args.elapsed, 0))
       IN /\ tasks' = r.tasks
          /\ IF r.rows > 0
             THEN Goto(p, [proc[p] EXCEPT
                             !.pc = "complete_refetch",
                             !.was_last = GoalAllCompleted(r.tasks, proc[p].task_id)])
             ELSE Return(p, "complete", proc[p].task_id, "conflict", <<>>)
    /\ UNCHANGED goals

\* task.rs 288-289: re-fetch of the completed task.
CompleteRefetch(p) ==
    /\ proc[p].pc = "complete_refetch"
    /\ UNCHANGED <<goals, tasks>>
    /\ Goto(p, [proc[p] EXCEPT !.pc = "complete_get_goal",
                               !.task = get_task(proc[p].task_id)])

\* task.rs 291-295: the goal copy that the rollup later writes back.
CompleteGetGoal(p) ==
    /\ proc[p].pc = "complete_get_goal"
    /\ UNCHANGED <<goals, tasks>>
    /\ LET goal == get_goal(unwrap(proc[p].task).goal_id) IN
       IF is_none(goal)
       THEN Return(p, "complete", proc[p].task_id, "not_found", <<>>)
       ELSE Goto(p, [proc[p] EXCEPT !.pc = "complete_list_tasks", !.goal = goal])

\* task.rs 297-301: the snapshot the cascade works on.
CompleteListTasks(p) ==
    /\ proc[p].pc = "complete_list_tasks"
    /\ UNCHANGED <<goals, tasks>>
    /\ Goto(p, [proc[p] EXCEPT !.pc = "complete_cascade",
                               !.all_tasks = list_tasks(unwrap(proc[p].goal).id),
                               !.idx = 1, !.unblocked = <<>>])

\* Faulty variant of all_blockers_done: any() where the code has all().
any_blocker_done(all_tasks, blocked_by) ==
    \E i \in DOMAIN blocked_by :
        \E j \in DOMAIN all_tasks :
            all_tasks[j].id = blocked_by[i] /\ all_tasks[j].state = "Completed"

\* task.rs 308-312: every blocker is a Completed task of the snapshot.
all_blockers_done(all_tasks, blocked_by) ==
    \A i \in DOMAIN blocked_by :
        \E j \in DOMAIN all_tasks :
            all_tasks[j].id = blocked_by[i] /\ all_tasks[j].state = "Completed"

\* Faulty variant of ShouldUnblock: only the complete of the last blocker of
\* the list unblocks.
ShouldUnblockLastBlocker(all_tasks, dependent_task, completed_task_id) ==
    /\ dependent_task.state = "Blocked"
    /\ is_some(dependent_task.blocked_by)
    /\ unwrap(dependent_task.blocked_by) # <<>>
    /\ unwrap(dependent_task.blocked_by)[Len(unwrap(dependent_task.blocked_by))]
           = completed_task_id
    /\ all_blockers_done(all_tasks, unwrap(dependent_task.blocked_by))

\* task.rs 304-314: the snapshot row is a dependent the cascade unblocks.
ShouldUnblock(all_tasks, dependent_task, completed_task_id) ==
    /\ dependent_task.state = "Blocked"
    /\ is_some(dependent_task.blocked_by)
    /\ contains(unwrap(dependent_task.blocked_by), completed_task_id)
    /\ all_blockers_done(all_tasks, unwrap(dependent_task.blocked_by))

\* Positions of the loop, from idx on, at which update_task will be called.
PendingUnblocks(p) ==
    {i \in DOMAIN proc[p].all_tasks :
        /\ i >= proc[p].idx
        /\ ShouldUnblock(proc[p].all_tasks, proc[p].all_tasks[i], unwrap(proc[p].task).id)}

Min(S) == CHOOSE x \in S : \A y \in S : x <= y

\* Faulty variant of CompleteUpdateTask: the id of the dependent is not kept
\* for the report.
CompleteUpdateTaskUnreported(p) ==
    /\ proc[p].pc = "complete_cascade"
    /\ PendingUnblocks(p) # {}
    /\ LET i == Min(PendingUnblocks(p))
           dependent_task == [proc[p].all_tasks[i] EXCEPT !.state = "Pending"]
       IN /\ tasks' = update_task(dependent_task)
          /\ Goto(p, [proc[p] EXCEPT !.idx = i + 1])
    /\ UNCHANGED goals

\* task.rs 303-323: the loop runs to its next update_task; the snapshot row,
\* with state Pending, is written over the stored row.
CompleteUpdateTask(p) ==
    /\ proc[p].pc = "complete_cascade"
    /\ PendingUnblocks(p) # {}
    /\ LET i == Min(PendingUnblocks(p))
           dependent_task == [proc[p].all_tasks[i] EXCEPT !.state = "Pending"]
       IN /\ tasks' = update_task(dependent_task)
          /\ Goto(p, [proc[p] EXCEPT !.idx = i + 1,
                                     !.unblocked = Append(@, dependent_task.id)])
    /\ UNCHANGED goals

\* Faulty variant of Rollup: the Completed branch does not set completed_at.
RollupWithoutCompletedAt(goal, all_tasks) ==
    LET all_completed == \A i \in DOMAIN all_tasks : all_tasks[i].state = "Completed"
        any_failed == \E i \in DOMAIN all_tasks : all_tasks[i].state = "Failed"
    IN IF all_completed
       THEN [goal EXCEPT !.state = "Completed"]
       ELSE IF any_failed THEN [goal EXCEPT !.state = "Failed"]
       ELSE goal

\* Faulty variant of Rollup: a Failed task does not change the goal.
RollupIgnoresFailed(goal, all_tasks) ==
    LET all_completed == \A i \in DOMAIN all_tasks : all_tasks[i].state = "Completed"
    IN IF all_completed
       THEN [goal EXCEPT !.state = "Completed", !.completed_at = Some("now")]
       ELSE goal

\* task.rs 327-335: the goal state the rollup decides on a task list.
Rollup(goal, all_tasks) ==
    LET all_completed == \A i \in DOMAIN all_tasks : all_tasks[i].state = "Completed"
        any_failed == \E i \in DOMAIN all_tasks : all_tasks[i].state = "Failed"
    IN IF all_completed
       THEN [goal EXCEPT !.state = "Completed", !.completed_at = Some("now")]
       ELSE IF any_failed THEN [goal EXCEPT !.state = "Failed"]
       ELSE goal

\* task.rs 327-335: the branch the rollup takes on a task list.
RollupBranch(all_tasks) ==
    IF \A i \in DOMAIN all_tasks : all_tasks[i].state = "Completed" THEN "completed"
    ELSE IF \E i \in DOMAIN all_tasks : all_tasks[i].state = "Failed" THEN "failed"
    ELSE "unchanged"

\* task.rs 325-335: the loop is over; second list_tasks and the rollup on it.
\* rollup records (history only) the branch taken on the re-read list, which
\* the command itself drops here.
CompleteRefresh(p) ==
    /\ proc[p].pc = "complete_cascade"
    /\ PendingUnblocks(p) = {}
    /\ UNCHANGED <<goals, tasks>>
    /\ Goto(p, [proc[p] EXCEPT !.pc = "complete_update_goal",
                               !.all_tasks = <<>>, !.idx = 0,
                               !.rollup = RollupBranch(list_tasks(unwrap(proc[p].goal).id)),
                               !.goal = Some(Rollup(unwrap(proc[p].goal),
                                                    list_tasks(unwrap(proc[p].goal).id)))])

\* task.rs 337-349: the goal copy is written back whole; the report unwraps
\* the result of the re-fetched task.
CompleteUpdateGoal(p) ==
    /\ proc[p].pc = "complete_update_goal"
    /\ goals' = update_goal(unwrap(proc[p].goal))
    /\ Return(p, "complete", proc[p].task_id,
              IF is_some(unwrap(proc[p].task).result) THEN "ok" ELSE "panic",
              proc[p].unblocked)
    /\ UNCHANGED tasks

\* Where complete stands after its conditional write and before it has
\* listed the tasks to evaluate the dependents (task.rs 288-297).
BeforeCascade == {"complete_refetch", "complete_get_goal", "complete_list_tasks"}

\* The process running complete stops (is killed, loses power) between two
\* statements, after the conditional write and before the dependents are
\* evaluated: nothing more is written and nothing is rolled back, the store
\* being used without a transaction.
Crash(p) ==
    /\ proc[p].pc \in BeforeCascade
    /\ Return(p, "complete", proc[p].task_id, "killed", <<>>)
    /\ UNCHANGED <<goals, tasks>>

\* ---------------------------------------------------------------- fail

\* Faulty variant of transition_task_state_from_any: WHERE id alone.
transition_task_state_from_any_unguarded(task_id, from_states, to_state) ==
    IF task_id \in DOMAIN tasks
    THEN [rows |-> 1, tasks |-> [tasks EXCEPT ![task_id].state = to_state]]
    ELSE [rows |-> 0, tasks |-> tasks]

\* db.rs 450-478: UPDATE tasks SET state WHERE id AND state IN (from_states).
transition_task_state_from_any(task_id, from_states, to_state) ==
    IF task_id \in DOMAIN tasks /\ tasks[task_id].state \in from_states
    THEN [rows |-> 1, tasks |-> [tasks EXCEPT ![task_id].state = to_state]]
    ELSE [rows |-> 0, tasks |-> tasks]

\* task.rs 352-381.
FailGetTask(p, task_id) ==
    /\ proc[p].pc = "idle"
    /\ UNCHANGED <<goals, tasks>>
    /\ LET task == get_task(task_id) IN
       IF is_none(task)
       THEN Return(p, "fail", task_id, "not_found", <<>>)
       ELSE IF unwrap(task).state # "InProgress" /\ unwrap(task).state # "Verifying"
       THEN Return(p, "fail", task_id, "invalid_state", <<>>)
       ELSE Goto(p, [Idle EXCEPT !.pc = "fail_cas", !.task_id = task_id])

\* Faulty variant of FailTransition: the count of rows written is ignored
\* and the command reports success whether or not it changed the task.
FailTransitionUnchecked(p) ==
    /\ proc[p].pc = "fail_cas"
    /\ LET r == transition_task_state_from_any(proc[p].task_id,
                                               {"InProgress", "Verifying"}, "Failed")
       IN /\ tasks' = r.tasks
          /\ Return(p, "fail", proc[p].task_id, "ok", <<>>)
    /\ UNCHANGED goals

\* task.rs 383-400.
FailTransition(p) ==
    /\ proc[p].pc = "fail_cas"
    /\ LET r == transition_task_state_from_any(proc[p].task_id,
                                               {"InProgress", "Verifying"}, "Failed")
       IN /\ tasks' = r.tasks
          /\ Return(p, "fail", proc[p].task_id,
                    IF r.rows > 0 THEN "ok" ELSE "conflict", <<>>)
    /\ UNCHANGED goals

\* ---------------------------------------------------------------- retry

\* Faulty variant of retry_task: WHERE id alone.
retry_task_unguarded(task_id) ==
    IF task_id \in DOMAIN tasks
    THEN [rows |-> 1,
          tasks |-> [tasks EXCEPT ![task_id] =
                       [@ EXCEPT !.state = "InProgress", !.retry_count = @ + 1]]]
    ELSE [rows |-> 0, tasks |-> tasks]

\* db.rs 522-534: UPDATE tasks SET state, retry_count = retry_count + 1
\* WHERE id AND state = 'failed'.
retry_task(task_id) ==
    IF task_id \in DOMAIN tasks /\ tasks[task_id].state = "Failed"
    THEN [rows |-> 1,
          tasks |-> [tasks EXCEPT ![task_id] =
                       [@ EXCEPT !.state = "InProgress", !.retry_count = @ + 1]]]
    ELSE [rows |-> 0, tasks |-> tasks]

\* task.rs 402-431.
RetryGetTask(p, task_id) ==
    /\ proc[p].pc = "idle"
    /\ UNCHANGED <<goals, tasks>>
    /\ LET task == get_task(task_id) IN
       IF is_none(task)
       THEN Return(p, "retry", task_id, "not_found", <<>>)
       ELSE IF unwrap(task).state # "Failed"
       THEN Return(p, "retry", task_id, "invalid_state", <<>>)
       ELSE Goto(p, [Idle EXCEPT !.pc = "retry_cas", !.task_id = task_id])

\* Faulty variant of RetryTask: a successful retry also re-opens the goal.
RetryTaskReopensGoal(p) ==
    /\ proc[p].pc = "retry_cas"
    /\ LET r == retry_task(proc[p].task_id)
       IN /\ tasks' = r.tasks
          /\ goals' = IF r.rows > 0
                      THEN [goals EXCEPT ![tasks[proc[p].task_id].goal_id].state = "InProgress"]
                      ELSE goals
          /\ Return(p, "retry", proc[p].task_id,
                    IF r.rows > 0 THEN "ok" ELSE "conflict", <<>>)

\* task.rs 433-447 (the re-fetch after the write only feeds the printout).
RetryTask(p) ==
    /\ proc[p].pc = "retry_cas"
    /\ LET r == retry_task(proc[p].task_id)
       IN /\ tasks' = r.tasks
          /\ Return(p, "retry", proc[p].task_id,
                    IF r.rows > 0 THEN "ok" ELSE "conflict", <<>>)
    /\ UNCHANGED goals

\* ---------------------------------------------------------------- edit

\* --blocked-by values given to edit (no validation is made on them).
EditBlockedByArgs == {None, Some(<<2>>)}

\* edit.rs 17-29: the task as loaded from the store.
EditGetTask(p, task_id) ==
    /\ proc[p].pc = "idle"
    /\ reply = NoReply
    /\ UNCHANGED <<goals, tasks>>
    /\ LET task == get_task(task_id) IN
       IF is_none(task)
       THEN /\ proc' = proc
            /\ reply' = [cmd |-> "edit", id |-> task_id, status |-> "not_found",
                         ids |-> <<>>]
            /\ edits' = edits
            /\ call' = call
            /\ started' = started
       ELSE /\ proc' = [proc EXCEPT ![p] = [Idle EXCEPT !.pc = "edit_write",
                                                        !.task_id = task_id,
                                                        !.task = task]]
            /\ reply' = NoReply
            /\ edits' = edits + 1
            /\ call' = call
            /\ started' = started

\* edit.rs 31-50: the fields given are set on the loaded task, which is
\* written back whole.
EditWrite(p, contract, blocked_by) ==
    /\ proc[p].pc = "edit_write"
    /\ LET loaded == unwrap(proc[p].task)
           with_contract == IF is_some(contract)
                            THEN [loaded EXCEPT !.contract = contract] ELSE loaded
           task == IF is_some(blocked_by)
                   THEN [with_contract EXCEPT !.blocked_by = blocked_by]
                   ELSE with_contract
       IN tasks' = update_task(task)
    /\ Return(p, "edit", proc[p].task_id, "ok", <<>>)
    /\ UNCHANGED goals

\* ---------------------------------------------------------------- list

\* The ids of the tasks given to topo_sort; the ids (creation order) a
\* blocked_by may name; the blocked_by lists; the argument values.
TopoIds == 1..MaxTopoTasks

TopoRefs == 1..(MaxTopoTasks + 1)

TopoBlockedBy == UNION {[1..n -> TopoRefs] : n \in 0..MaxTopoBlockers}

TopoInputs ==
    {ts \in UNION {[1..n -> [id : TopoIds, blocked_by : TopoBlockedBy]] : n \in 0..MaxTopoTasks} :
        \A i \in DOMAIN ts : \A j \in DOMAIN ts : i # j => ts[i].id # ts[j].id}

\* The orders in which iterating a HashMap can yield the keys in S.
IterationOrders(S) ==
    {q \in [1..Cardinality(S) -> S] :
        \A i \in DOMAIN q : \A j \in DOMAIN q : i # j => q[i] # q[j]}

\* list.rs 35.
task_ids(ts) == {ts[i].id : i \in DOMAIN ts}

\* The task of the list with the given id (list.rs 83: task_map).
task_map(ts, id) == ts[CHOOSE i \in DOMAIN ts : ts[i].id = id]

\* Faulty variant of InDegree: every blocked_by id counts.
InDegreeUnfiltered(ts) ==
    [id \in task_ids(ts) |-> Len(task_map(ts, id).blocked_by)]

\* list.rs 41-47: per task, the number of blocked_by entries that are in the list.
InDegree(ts) ==
    [id \in task_ids(ts) |->
        LET blocked_by == task_map(ts, id).blocked_by
        IN Cardinality({i \in DOMAIN blocked_by : blocked_by[i] \in task_ids(ts)})]

\* list.rs 49-57: the ids pushed to dependents[blocker], in the order of the
\* loop over the tasks and, within a task, over its blocked_by.
RECURSIVE Dependents(_, _)
Dependents(ts, blocker) ==
    IF ts = <<>> THEN <<>>
    ELSE LET task == Head(ts)
             hits == {i \in DOMAIN task.blocked_by : task.blocked_by[i] = blocker}
         IN [i \in 1..Cardinality(hits) |-> task.id] \o Dependents(Tail(ts), blocker)

\* Faulty variant of ZeroDegree: the filter on the degree is left out.
ZeroDegreeUnfiltered(in_degree) == DOMAIN in_degree

\* list.rs 61-65: the keys of in_degree whose value is 0.
ZeroDegree(in_degree) == {id \in DOMAIN in_degree : in_degree[id] = 0}

\* Faulty variant of Relax: a dependent is queued as soon as one of its
\* blockers is popped.
RECURSIVE RelaxPushAlways(_, _, _)
RelaxPushAlways(deps, in_degree, queue) ==
    IF deps = <<>> THEN [in_degree |-> in_degree, queue |-> queue]
    ELSE LET dep == Head(deps)
             deg == in_degree[dep] - 1
         IN RelaxPushAlways(Tail(deps), [in_degree EXCEPT ![dep] = deg], Append(queue, dep))

\* list.rs 70-79: the for loop over the dependents of the popped id.
RECURSIVE Relax(_, _, _)
Relax(deps, in_degree, queue) ==
    IF deps = <<>> THEN [in_degree |-> in_degree, queue |-> queue]
    ELSE LET dep == Head(deps)
             deg == in_degree[dep] - 1
         IN Relax(Tail(deps), [in_degree EXCEPT ![dep] = deg],
                  IF deg = 0 THEN Append(queue, dep) ELSE queue)

\* topo_sort is called with the task list ts.
TopoCall(ts) ==
    [fn |-> "topo_sort", pc |-> "build", tasks |-> ts, in_degree |-> <<>>,
     queue |-> <<>>, ordered_ids |-> <<>>, output |-> <<>>]

\* list.rs 35-65: in_degree and dependents are built; the queue starts with
\* the zero-degree keys in the order the HashMap yields them.
TopoBuild(queue) ==
    /\ call.fn = "topo_sort"
    /\ call.pc = "build"
    /\ queue \in IterationOrders(ZeroDegree(InDegree(call.tasks)))
    /\ call' = [call EXCEPT !.pc = "loop", !.in_degree = InDegree(call.tasks),
                            !.queue = queue]
    /\ UNCHANGED <<goals, tasks, proc, reply, edits, started>>

\* list.rs 68-80: one turn of the while loop.
TopoPop ==
    /\ call.fn = "topo_sort"
    /\ call.pc = "loop"
    /\ call.queue # <<>>
    /\ LET id == Head(call.queue)
           r == Relax(Dependents(call.tasks, id), call.in_degree, Tail(call.queue))
       IN call' = [call EXCEPT !.ordered_ids = Append(@, id),
                               !.in_degree = r.in_degree,
                               !.queue = r.queue]
    /\ UNCHANGED <<goals, tasks, proc, reply, edits, started>>

\* list.rs 82-88: the queue is empty; the tasks are returned in the order found.
TopoReturn ==
    /\ call.fn = "topo_sort"
    /\ call.pc = "loop"
    /\ call.queue = <<>>
    /\ call' = [call EXCEPT !.pc = "done",
                            !.output = [i \in DOMAIN call.ordered_ids |->
                                           task_map(call.tasks, call.ordered_ids[i])]]
    /\ UNCHANGED <<goals, tasks, proc, reply, edits, started>>

\* ---------------------------------------------------------------- similar

\* A &str is the sequence of its chars.  Stored ids are MaxIdLen chars of
\* the one-byte alphabet of generate_id.
ALPHABET == {"a", "b"}

Ids == [1..MaxIdLen -> ALPHABET]

\* The target is what the user typed, any UTF-8 text: chars of the alphabet
\* and one two-byte char.
Chars == ALPHABET \cup {"U+00E9"}

Strs == UNION {[1..n -> Chars] : n \in 0..MaxIdLen}

SimilarInputs ==
    [target : Strs, candidates : UNION {[1..n -> Ids] : n \in 0..MaxCandidates}]

\* char::len_utf8.
len_utf8(c) == IF c = "U+00E9" THEN 2 ELSE 1

\* str::len: the length in bytes.
RECURSIVE len(_)
len(s) == IF s = <<>> THEN 0 ELSE len_utf8(Head(s)) + len(Tail(s))

\* s.chars().nth(n): the n-th char counted from 0, None past the last one.
chars_nth(s, n) == IF n + 1 <= Len(s) THEN Some(s[n + 1]) ELSE None

min(a, b) == IF a <= b THEN a ELSE b

\* helpers.rs 2-37: len1 and len2 are the byte lengths of the strings, cell
\* (i, j) compares the (i-1)-th and (j-1)-th chars, None past the last char.
levenshtein_distance(s1, s2) ==
    LET len1 == len(s1)
        len2 == len(s2)
        matrix[i \in 0..len1, j \in 0..len2] ==
            IF j = 0 THEN i
            ELSE IF i = 0 THEN j
            ELSE LET cost == IF chars_nth(s1, i - 1) = chars_nth(s2, j - 1) THEN 0 ELSE 1
                 IN min(min(matrix[i - 1, j] + 1, matrix[i, j - 1] + 1),
                        matrix[i - 1, j - 1] + cost)
    IN IF len1 = 0 THEN len2
       ELSE IF len2 = 0 THEN len1
       ELSE matrix[len1, len2]

\* helpers.rs 40-45: the call, before the first candidate is looked at.
SimilarCall(in) ==
    [fn |-> "find_similar_id", pc |-> "entry", target |-> in.target,
     candidates |-> in.candidates, i |-> 1, best_match |-> None, output |-> None]

\* helpers.rs 41-43: no candidates, no suggestion.
SimilarEmpty ==
    /\ call.fn = "find_similar_id"
    /\ call.pc = "entry"
    /\ call.candidates = <<>>
    /\ call' = [call EXCEPT !.pc = "done", !.output = None]
    /\ UNCHANGED <<goals, tasks, proc, reply, edits, started>>

\* helpers.rs 45: best_match starts as None and the loop is entered.
SimilarEnter ==
    /\ call.fn = "find_similar_id"
    /\ call.pc = "entry"
    /\ call.candidates # <<>>
    /\ call' = [call EXCEPT !.pc = "loop"]
    /\ UNCHANGED <<goals, tasks, proc, reply, edits, started>>

\* helpers.rs 47-60: one turn of the loop over the candidates.
SimilarNext ==
    /\ call.fn = "find_similar_id"
    /\ call.pc = "loop"
    /\ call.i <= Len(call.candidates)
    /\ LET candidate == call.candidates[call.i]
           distance == levenshtein_distance(call.target, candidate)
           better == /\ distance <= 2
                     /\ \/ call.best_match = None
                        \/ distance < call.best_match[1].distance
       IN call' = [call EXCEPT !.i = @ + 1,
                               !.best_match =
                                   IF better
                                   THEN Some([id |-> candidate, distance |-> distance])
                                   ELSE @]
    /\ UNCHANGED <<goals, tasks, proc, reply, edits, started>>

\* helpers.rs 62: the id of the best match, if there is one.
SimilarReturn ==
    /\ call.fn = "find_similar_id"
    /\ call.pc = "loop"
    /\ call.i > Len(call.candidates)
    /\ call' = [call EXCEPT !.pc = "done",
                            !.output = IF call.best_match = None THEN None
                                       ELSE Some(call.best_match[1].id)]
    /\ UNCHANGED <<goals, tasks, proc, reply, edits, started>>

\* ---------------------------------------------------------------- claims

\* Process p takes the step.
Stepped(p) == proc'[p] # proc[p]

CasPcs == {"start_cas", "complete_cas", "fail_cas", "retry_cas"}

\* C1: of two start invocations that have both read the same task as Pending
\* (both stand before the conditional write), the one that writes first
\* reports success and leaves the task InProgress, the other still waiting;
\* and an invocation whose write finds the task no longer Pending reports the
\* concurrency conflict and leaves the task as the winner left it.
C1_StartRaceOneWinner ==
    [][\A p \in Procs : \A q \in Procs \ {p} :
         LET t == proc[q].task_id IN
         proc[q].pc = "start_cas" =>
           /\ (proc[p].pc = "start_cas" /\ proc[p].task_id = t /\ Stepped(p))
                 => /\ reply' = [cmd |-> "start", id |-> t, status |-> "ok", ids |-> <<>>]
                    /\ tasks[t].state = "Pending"
                    /\ tasks'[t].state = "InProgress"
                    /\ proc'[q] = proc[q]
           /\ (tasks[t].state # "Pending" /\ Stepped(q))
                 => /\ reply' = [cmd |-> "start", id |-> t, status |-> "conflict",
                                 ids |-> <<>>]
                    /\ tasks' = tasks]_vars

\* The loser of a start race has just reported the conflict; the task is InProgress.
C1_Witness ==
    /\ reply.cmd = "start"
    /\ reply.status = "conflict"
    /\ tasks[reply.id].state = "InProgress"

\* C2: a start reports success only in a step at whose beginning the stored
\* task has a contract and is Pending, and that step leaves it InProgress.
C2_StartSuccessGuard ==
    [][(reply'.cmd = "start" /\ reply'.status = "ok") =>
         /\ tasks[reply'.id].state = "Pending"
         /\ is_some(tasks[reply'.id].contract)
         /\ tasks'[reply'.id].state = "InProgress"]_vars

C4_CompleteWrite ==
    [][/\ \A p \in Procs :
            (proc[p].pc = "complete_cas" /\ proc'[p].pc = "complete_refetch") =>
               LET t == proc[p].task_id IN
               /\ tasks[t].state = "InProgress"
               /\ \E a \in CompleteArgs :
                    tasks' = [tasks EXCEPT ![t] =
                        [@ EXCEPT !.state = "Completed",
                                  !.result = Some([summary |-> a.summary,
                                                   artifacts |-> unwrap_or(a.artifacts, <<>>)]),
                                  !.tokens = unwrap_or(a.tokens, 0),
                                  !.elapsed_ms = unwrap_or(a.elapsed, 0),
                                  !.completed_at = Some("now")]]
               /\ goals' = goals
       /\ (reply'.cmd = "complete" /\ reply'.status \in {"not_found", "invalid_state", "conflict"})
            => tasks' = tasks /\ goals' = goals
       /\ \A p \in Procs :
            (proc[p].pc = "complete_cas" /\ Stepped(p) /\ tasks[proc[p].task_id].state # "InProgress")
               => reply'.status = "conflict"]_vars

\* A complete has just written Completed with the result and the metrics.
C4_Witness ==
    \E p \in Procs :
        /\ proc[p].pc = "complete_refetch"
        /\ tasks[proc[p].task_id].state = "Completed"
        /\ is_some(tasks[proc[p].task_id].result)
        /\ tasks[proc[p].task_id].tokens = 7

\* The ids of a snapshot's tasks that are Blocked, list completed_task_id in
\* blocked_by and have every blocked_by id Completed in the snapshot.
Unblockable(all_tasks, completed_task_id) ==
    {all_tasks[i].id : i \in
        {j \in DOMAIN all_tasks :
            /\ all_tasks[j].state = "Blocked"
            /\ is_some(all_tasks[j].blocked_by)
            /\ completed_task_id \in Range(unwrap(all_tasks[j].blocked_by))
            /\ \A b \in Range(unwrap(all_tasks[j].blocked_by)) :
                 \E k \in DOMAIN all_tasks :
                     all_tasks[k].id = b /\ all_tasks[k].state = "Completed"}}

\* C5: in the cascade of a successful complete of T, every write sets a task of
\* Unblockable(snapshot, T) to Pending; the cascade ends only when each of
\* them has been written once, and the ids the command reports as unblocked
\* are exactly those.
C5_CascadeExact ==
    [][\A p \in Procs :
         LET want == Unblockable(proc[p].all_tasks, proc[p].task_id) IN
         /\ (proc[p].pc = "complete_cascade" /\ proc'[p].pc = "complete_cascade" /\ Stepped(p))
              => \E d \in want \ Range(proc[p].unblocked) :
                    /\ tasks'[d].state = "Pending"
                    /\ proc'[p].unblocked = Append(proc[p].unblocked, d)
                    /\ \A i \in DOMAIN tasks : i # d => tasks'[i] = tasks[i]
         /\ (proc[p].pc = "complete_cascade" /\ proc'[p].pc = "complete_update_goal")
              => /\ Range(proc[p].unblocked) = want
                 /\ Len(proc[p].unblocked) = Cardinality(want)
                 /\ proc'[p].unblocked = proc[p].unblocked
         /\ (proc[p].pc = "complete_update_goal" /\ Stepped(p) /\ reply'.status = "ok")
              => reply'.ids = proc[p].unblocked]_vars

\* A complete has reported an unblocked task that has two blockers.
C5_Witness ==
    /\ reply.cmd = "complete"
    /\ reply.status = "ok"
    /\ \E d \in Range(reply.ids) :
          /\ tasks[d].state = "Pending"
          /\ Len(unwrap(tasks[d].blocked_by)) = 2

\* C6: no step moves a stored task from Blocked to Pending while some id in
\* its blocked_by is, at that step, a task that is not Completed.
C6_NoEarlyUnblock ==
    [][\A d \in DOMAIN tasks :
         (tasks[d].state = "Blocked" /\ tasks'[d].state = "Pending") =>
            \A b \in Range(unwrap_or(tasks'[d].blocked_by, <<>>)) :
                b \in DOMAIN tasks /\ tasks[b].state = "Completed"]_vars

\* C7 as stated: a complete whose conditional write completed the last task of
\* G that was not yet Completed ends by writing G Completed with completed_at.
C7_LastTaskCompletesGoal ==
    [][\A p \in Procs :
         (proc[p].pc = "complete_update_goal" /\ Stepped(p) /\ proc[p].was_last) =>
            LET g == unwrap(proc[p].goal).id IN
            goals'[g].state = "Completed" /\ is_some(goals'[g].completed_at)]_vars

\* C7 amended: a complete whose re-read of G's tasks after the cascade finds
\* every one of them Completed sets, in the row of G it holds, the state to
\* Completed and completed_at; and the goal write that ends the command
\* stores exactly the row the command holds.
C7_RollupCompletesGoal ==
    [][\A p \in Procs : \A q \in Procs :
         /\ (proc[p].pc = "complete_cascade" /\ proc'[p].pc = "complete_update_goal")
              => LET seen == list_tasks(unwrap(proc[p].goal).id) IN
                 (\A i \in DOMAIN seen : seen[i].state = "Completed")
                    => /\ unwrap(proc'[p].goal).state = "Completed"
                       /\ is_some(unwrap(proc'[p].goal).completed_at)
         /\ (proc[q].pc = "complete_update_goal" /\ Stepped(q))
              => LET g == unwrap(proc[q].goal).id IN goals'[g] = unwrap(proc[q].goal)]_vars

\* A complete that was last at its conditional write has reported success and
\* its goal is Completed with completed_at.
C7_Witness ==
    /\ reply.cmd = "complete"
    /\ reply.status = "ok"
    /\ goals[tasks[reply.id].goal_id].state = "Completed"
    /\ is_some(goals[tasks[reply.id].goal_id].completed_at)
    /\ GoalAllCompleted(tasks, reply.id)

\* C8: the conditional write of retry reports success only if the stored task
\* is Failed; it then sets the state to InProgress and retry_count to exactly
\* one more and touches nothing else; of two retries racing on one Failed
\* task the second finds it InProgress and adds nothing.
C8_RetryWrite ==
    [][\A p \in Procs :
         (proc[p].pc = "retry_cas" /\ Stepped(p)) =>
            LET t == proc[p].task_id IN
            IF tasks[t].state = "Failed"
            THEN /\ reply' = [cmd |-> "retry", id |-> t, status |-> "ok", ids |-> <<>>]
                 /\ tasks' = [tasks EXCEPT ![t] =
                        [@ EXCEPT !.state = "InProgress",
                                  !.retry_count = tasks[t].retry_count + 1]]
                 /\ goals' = goals
            ELSE /\ reply'.status # "ok"
                 /\ tasks'[t].retry_count = tasks[t].retry_count]_vars

\* Two retries raced on one task: the loser has reported the conflict and the
\* count stands at one.
C8_Witness ==
    /\ reply.cmd = "retry"
    /\ reply.status = "conflict"
    /\ tasks[reply.id].state = "InProgress"
    /\ tasks[reply.id].retry_count = 1

\* C9: the conditional write of fail reports success only if the stored task
\* is InProgress or Verifying; it then sets that task's state to Failed and
\* changes no other field, no other task and no goal.
C9_FailWrite ==
    [][/\ \A p \in Procs :
            (proc[p].pc = "fail_cas" /\ Stepped(p) /\ reply'.status = "ok") =>
               LET t == proc[p].task_id IN
               /\ tasks[t].state \in {"InProgress", "Verifying"}
               /\ tasks' = [tasks EXCEPT ![t] = [@ EXCEPT !.state = "Failed"]]
               /\ goals' = goals
       /\ (reply'.cmd = "fail" /\ reply'.status = "ok")
            => \E p \in Procs : proc[p].pc = "fail_cas" /\ Stepped(p)]_vars

\* A fail has just reported success on a task that is now Failed.
C9_Witness ==
    /\ reply.cmd = "fail"
    /\ reply.status = "ok"
    /\ tasks[reply.id].state = "Failed"

\* The state a command's conditional write requires of the stored task.
Expected(pc) ==
    CASE pc = "start_cas" -> {"Pending"}
      [] pc = "complete_cas" -> {"InProgress"}
      [] pc = "fail_cas" -> {"InProgress", "Verifying"}
      [] pc = "retry_cas" -> {"Failed"}

\* C10: a start, complete, fail or retry whose conditional write finds the
\* task no longer in the state the command read ends at that step with the
\* conflict outcome, which is neither success, NotFound nor InvalidState, and
\* the step changes no task and no goal; the command does nothing further.
C10_ConflictChangesNothing ==
    [][\A p \in Procs :
         (/\ proc[p].pc \in CasPcs
          /\ Stepped(p)
          /\ tasks[proc[p].task_id].state \notin Expected(proc[p].pc)) =>
            /\ reply'.status = "conflict"
            /\ reply'.status \notin {"ok", "not_found", "invalid_state"}
            /\ reply'.id = proc[p].task_id
            /\ tasks' = tasks
            /\ goals' = goals
            /\ proc'[p] = Idle]_vars

\* A complete has lost the race for its task, which has a dependent still Blocked.
C10_Witness ==
    /\ reply.cmd = "complete"
    /\ reply.status = "conflict"
    /\ \E d \in DOMAIN tasks :
          /\ tasks[d].state = "Blocked"
          /\ reply.id \in Range(unwrap_or(tasks[d].blocked_by, <<>>))

\* The step is the read of task t by a start (get_task and the checks on the
\* copy): it ends the command with an error or goes on to the conditional write.
StartReads(t) ==
    \/ /\ reply'.cmd = "start"
       /\ reply'.id = t
       /\ reply'.status \notin {"ok", "conflict"}
    \/ \E p \in Procs :
          proc[p].pc = "idle" /\ proc'[p].pc = "start_cas" /\ proc'[p].task_id = t

\* C11: a start that reads a task without a contract ends at that step with
\* the needs-a-contract error, whatever the task's state; the error is not
\* the wrong-state one, and the step changes no task and no goal.
C11_NoContractFailsFirst ==
    [][\A t \in DOMAIN tasks :
         (StartReads(t) /\ is_none(tasks[t].contract)) =>
            /\ reply' = [cmd |-> "start", id |-> t, status |-> "no_contract", ids |-> <<>>]
            /\ reply'.status \notin {"invalid_state", "blocked"}
            /\ tasks' = tasks
            /\ goals' = goals
            /\ proc' = proc]_vars

\* A start on a task that is Blocked and has no contract has just reported
\* the needs-a-contract error.
C11_Witness ==
    /\ reply.cmd = "start"
    /\ reply.status = "no_contract"
    /\ tasks[reply.id].state = "Blocked"
    /\ is_none(tasks[reply.id].contract)

\* C12 as stated: a start that reads a task whose state is Blocked ends with
\* the error that names the ids of its blocked_by, and the task stays Blocked.
C12_BlockedStartNamesBlockers ==
    [][\A t \in DOMAIN tasks :
         (StartReads(t) /\ tasks[t].state = "Blocked") =>
            /\ reply' = [cmd |-> "start", id |-> t, status |-> "blocked",
                         ids |-> unwrap_or(tasks[t].blocked_by, <<>>)]
            /\ tasks' = tasks]_vars

\* C12 amended: a start that reads a task whose state is Blocked and that has
\* a contract ends with the error that names the ids of its blocked_by; a
\* start that reads a Blocked task, with or without contract, leaves it Blocked.
C12_BlockedStartWithContract ==
    [][\A t \in DOMAIN tasks :
         (StartReads(t) /\ tasks[t].state = "Blocked") =>
            /\ is_some(tasks[t].contract) =>
                  reply' = [cmd |-> "start", id |-> t, status |-> "blocked",
                            ids |-> unwrap_or(tasks[t].blocked_by, <<>>)]
            /\ reply'.status # "ok"
            /\ tasks' = tasks
            /\ proc' = proc]_vars

\* A start on a Blocked task with a contract and two blockers has just
\* reported the error naming both.
C12_Witness ==
    /\ reply.cmd = "start"
    /\ reply.status = "blocked"
    /\ tasks[reply.id].state = "Blocked"
    /\ is_some(tasks[reply.id].contract)
    /\ Len(reply.ids) = 2
    /\ reply.ids = unwrap(tasks[reply.id].blocked_by)

\* C13: a create goes from its validation to the insert only with a
\* blocked_by list whose every id is an existing task of the same goal;
\* otherwise it ends there, rejected, and the step changes no task and no
\* goal; and every row inserted with a blocked_by list names only tasks that
\* exist in its own goal.
C13_InvalidBlockedByRejected ==
    [][/\ \A p \in Procs :
            (proc[p].pc = "create_validate" /\ Stepped(p)) =>
               LET g == unwrap(proc[p].goal).id IN
               \/ /\ proc'[p].pc = "create_insert"
                  /\ reply' = NoReply
                  /\ \A b \in Range(unwrap(proc'[p].blocked_by)) :
                        b \in DOMAIN tasks /\ tasks[b].goal_id = g
               \/ /\ reply' = [cmd |-> "create", id |-> g, status |-> "validation",
                                ids |-> <<>>]
                  /\ proc'[p] = Idle
                  /\ tasks' = tasks
                  /\ goals' = goals
       /\ Len(tasks') = Len(tasks) + 1 =>
            LET task == tasks'[Len(tasks')] IN
            \A b \in Range(unwrap_or(task.blocked_by, <<>>)) :
                b \in DOMAIN tasks /\ tasks[b].goal_id = task.goal_id]_vars

\* A create in a goal that has no task, while the other goal has one, has just
\* been rejected for its blocked_by; the goal is still Pending.
C13_Witness ==
    /\ reply.cmd = "create"
    /\ reply.status = "validation"
    /\ goals[reply.id].state = "Pending"
    /\ list_tasks(reply.id) = <<>>
    /\ tasks # <<>>

\* C14: in every reachable state each stored task has a result if and only if
\* its state is Completed.
C14_ResultIffCompleted ==
    \A t \in DOMAIN tasks : is_some(tasks[t].result) <=> tasks[t].state = "Completed"

\* A task is Completed with its result while a second complete, of another
\* task, stands between its statements.
C14_Witness ==
    \E t \in DOMAIN tasks : \E p \in Procs :
        /\ tasks[t].state = "Completed"
        /\ is_some(tasks[t].result)
        /\ proc[p].pc \in {"complete_cascade", "complete_update_goal"}
        /\ proc[p].task_id # t

\* C15: in every reachable state each goal has completed_at set if and only
\* if its state is Completed.
C15_CompletedAtIffCompleted ==
    \A g \in DOMAIN goals : is_some(goals[g].completed_at) <=> goals[g].state = "Completed"

\* C16: a step changes the retry_count of a stored task only by adding exactly
\* one to it, and only while moving that task from Failed to InProgress.
C16_RetryCountMonotone ==
    [][\A t \in DOMAIN tasks :
         tasks'[t].retry_count # tasks[t].retry_count =>
            /\ tasks'[t].retry_count = tasks[t].retry_count + 1
            /\ tasks[t].state = "Failed"
            /\ tasks'[t].state = "InProgress"]_vars

\* C17: a step changes the blocked_by of a stored task only if it is the
\* write of an edit of that task.
C17_BlockedByFrame ==
    [][\A t \in DOMAIN tasks :
         tasks'[t].blocked_by # tasks[t].blocked_by =>
            \E p \in Procs :
                proc[p].pc = "edit_write" /\ proc[p].task_id = t /\ Stepped(p)]_vars

\* C18: a goal is inserted Pending; the goal write that ends a successful
\* create stores InProgress when the command read the goal Pending and it is
\* still Pending, and leaves the stored state as it is when the goal was not
\* Pending when the command read it and is not Pending now.
C18_GoalStateOnCreate ==
    [][/\ Len(goals') = Len(goals) + 1 => goals'[Len(goals')].state = "Pending"
       /\ \A p \in Procs :
            (proc[p].pc = "create_update_goal" /\ Stepped(p)) =>
               LET g == unwrap(proc[p].goal).id
                   read == unwrap(proc[p].goal).state
               IN /\ reply'.cmd = "create" /\ reply'.status = "ok"
                  /\ (read = "Pending" /\ goals[g].state = "Pending")
                        => goals'[g].state = "InProgress"
                  /\ (read # "Pending" /\ goals[g].state # "Pending")
                        => goals'[g].state = goals[g].state]_vars

\* C19: the re-read task list of a successful complete decides the branch of
\* the rollup; when that list is not all Completed, the goal write that ends
\* the command leaves the stored goal Failed if the list has a Failed task,
\* and in the state it was in otherwise.
C19_RollupNotAllCompleted ==
    [][\A p \in Procs :
         LET g == unwrap(proc[p].goal).id IN
         /\ (proc[p].pc = "complete_cascade" /\ proc'[p].pc = "complete_update_goal")
              => LET seen == list_tasks(g) IN
                 proc'[p].rollup =
                    IF \A i \in DOMAIN seen : seen[i].state = "Completed" THEN "completed"
                    ELSE IF \E i \in DOMAIN seen : seen[i].state = "Failed" THEN "failed"
                    ELSE "unchanged"
         /\ (proc[p].pc = "complete_update_goal" /\ Stepped(p))
              => /\ proc[p].rollup = "failed" => goals'[g].state = "Failed"
                 /\ proc[p].rollup = "unchanged" => goals'[g].state = goals[g].state]_vars


\* C20: a complete issued for a task T that is already stored Completed (the
\* re-run of T's cascade) ends with no task left Blocked that lists T in its
\* blocked_by and has every blocker Completed.
C20_CascadeRerun ==
    [][\A t \in DOMAIN tasks :
         (/\ tasks[t].state = "Completed"
          /\ reply'.cmd = "complete"
          /\ reply'.id = t
          /\ reply'.status # "killed"
          /\ \A p \in Procs : proc[p].pc = "idle")
            => Unblockable(tasks', t) = {}]_vars

\* topo_sort has returned.
TopoDone == call.fn = "topo_sort" /\ call.pc = "done"

\* The ids of the tasks topo_sort returned, in order.
OutputIds == [i \in DOMAIN call.output |-> call.output[i].id]

Position(ids, id) == CHOOSE i \in DOMAIN ids : ids[i] = id

\* b is a task of the list ts and is named in the blocked_by of its task t.
Blocks(ts, b, t) ==
    /\ b \in task_ids(ts)
    /\ t \in task_ids(ts)
    /\ b \in Range(task_map(ts, t).blocked_by)

\* There is a chain of at least one and at most k such edges from a to b.
RECURSIVE Reaches(_, _, _, _)
Reaches(ts, a, b, k) ==
    /\ k > 0
    /\ \/ Blocks(ts, a, b)
       \/ \E c \in task_ids(ts) : Blocks(ts, a, c) /\ Reaches(ts, c, b, k - 1)

OnCycle(ts, t) == Reaches(ts, t, t, Len(ts))

Acyclic(ts) == \A t \in task_ids(ts) : ~OnCycle(ts, t)

\* t lies on a cycle or is transitively blocked by a task that does.
BehindCycle(ts, t) ==
    \E c \in task_ids(ts) : OnCycle(ts, c) /\ (c = t \/ Reaches(ts, c, t, Len(ts)))

\* C21: when the in-list blocked_by edges are acyclic, every task is in the
\* output of topo_sort after each of its blocked_by tasks that is in the
\* list; and the list of A = 1 (no blocked_by), B = 2 (blocked_by [1]),
\* C = 3 (blocked_by 1 and 2), given in any order, comes out as 1, 2, 3.
C21_TopoOrder ==
    (TopoDone /\ Acyclic(call.tasks)) =>
        /\ \A t \in task_ids(call.tasks) : \A b \in task_ids(call.tasks) :
              Blocks(call.tasks, b, t) =>
                 /\ b \in Range(OutputIds)
                 /\ t \in Range(OutputIds)
                 /\ Position(OutputIds, b) < Position(OutputIds, t)
        /\ (\E c \in {<<1, 2>>, <<2, 1>>} :
               Range(call.tasks) = {[id |-> 1, blocked_by |-> <<>>],
                                    [id |-> 2, blocked_by |-> <<1>>],
                                    [id |-> 3, blocked_by |-> c]})
              => OutputIds = <<1, 2, 3>>

\* The list C, B, A of that example, given newest first, has come out as 1, 2, 3.
C21_Witness ==
    /\ TopoDone
    /\ call.tasks = <<[id |-> 3, blocked_by |-> <<1, 2>>],
                      [id |-> 2, blocked_by |-> <<1>>],
                      [id |-> 1, blocked_by |-> <<>>]>>
    /\ OutputIds = <<1, 2, 3>>

\* C22: of two tasks that both have no blocked_by task in the list, the one
\* created first (the smaller id) comes first in the output of topo_sort.
C22_TiesInCreationOrder ==
    TopoDone =>
        \A a \in task_ids(call.tasks) : \A b \in task_ids(call.tasks) :
            (a < b /\ InDegree(call.tasks)[a] = 0 /\ InDegree(call.tasks)[b] = 0) =>
               /\ a \in Range(OutputIds)
               /\ b \in Range(OutputIds)
               /\ Position(OutputIds, a) < Position(OutputIds, b)

\* C23: when the in-list blocked_by edges are acyclic, the output of
\* topo_sort holds every task of the list exactly once, whatever ids outside
\* the list the tasks name in blocked_by.
C23_OutOfSetIgnored ==
    (TopoDone /\ Acyclic(call.tasks)) =>
        /\ Len(call.output) = Len(call.tasks)
        /\ Range(call.output) = Range(call.tasks)

\* topo_sort has returned all three tasks of a list in which a task names
\* both a task of the list and an id that is not in the list.
C23_Witness ==
    /\ TopoDone
    /\ Len(call.output) = 3
    /\ \E i \in DOMAIN call.tasks :
          /\ Range(call.tasks[i].blocked_by) \cap task_ids(call.tasks) # {}
          /\ Range(call.tasks[i].blocked_by) \ task_ids(call.tasks) # {}

\* C27: every turn of topo_sort's loop adds one id to the ids found, which
\* never number more than the tasks of the list, so the loop ends; and the
\* output holds exactly once each task that neither lies on a cycle of
\* in-list blocked_by edges nor is transitively blocked by such a task, and
\* no other task.
C27_CycleOmitted ==
    [][/\ (call.fn = "topo_sort" /\ call.pc = "loop" /\ call'.pc = "loop") =>
            /\ Len(call'.ordered_ids) = Len(call.ordered_ids) + 1
            /\ Len(call'.ordered_ids) <= Len(call.tasks)
       /\ (call.fn = "topo_sort" /\ call'.pc = "done") =>
            LET kept == {t \in task_ids(call.tasks) : ~BehindCycle(call.tasks, t)} IN
            /\ Len(call'.output) = Cardinality(kept)
            /\ Range(call'.output) = {task_map(call.tasks, t) : t \in kept}]_vars

\* topo_sort has returned one task of three: one of the others names itself
\* in blocked_by, the third is blocked by that one without being on a cycle.
C27_Witness ==
    /\ TopoDone
    /\ Len(call.tasks) = 3
    /\ Len(call.output) = 1
    /\ \E t \in task_ids(call.tasks) :
          BehindCycle(call.tasks, t) /\ ~OnCycle(call.tasks, t)

SimilarDone == call.fn = "find_similar_id" /\ call.pc = "done"

\* The edit distance of two strings: the least number of chars to insert,
\* delete or replace to turn s into t.
RECURSIVE EditDistance(_, _)
EditDistance(s, t) ==
    IF s = <<>> THEN Len(t)
    ELSE IF t = <<>> THEN Len(s)
    ELSE IF Head(s) = Head(t) THEN EditDistance(Tail(s), Tail(t))
    ELSE 1 + min(min(EditDistance(Tail(s), t), EditDistance(s, Tail(t))),
                 EditDistance(Tail(s), Tail(t)))

\* The earliest candidate at the least edit distance from the target, when
\* that distance is at most 2.
Closest(target, candidates) ==
    LET d(i) == EditDistance(target, candidates[i])
        near == {i \in DOMAIN candidates :
                    d(i) <= 2 /\ \A j \in DOMAIN candidates : d(i) <= d(j)}
    IN IF near = {} THEN None ELSE Some(candidates[Min(near)])

\* C24: find_similar_id returns the candidate at the least edit distance from
\* the target when that distance is at most 2, the earliest such candidate of
\* the list on a tie, and none when every candidate is further than 2 or the
\* list is empty.
C24_ClosestWithinTwo ==
    SimilarDone => call.output = Closest(call.target, call.candidates)


\* C26: no command puts a task into Verifying: no step creates a task in
\* that state or moves one to it, so no stored task is ever Verifying, and
\* every fail that succeeds finds its task InProgress.
C26_NeverVerifying ==
    [][/\ \A t \in DOMAIN tasks' : tasks'[t].state # "Verifying"
       /\ \A p \in Procs :
            Stepped(p) /\ proc[p].pc = "fail_cas" /\ reply'.status = "ok"
                => tasks[proc[p].task_id].state = "InProgress"]_vars

\* A fail has succeeded.
C26_Witness ==
    /\ reply.cmd = "fail"
    /\ reply.status = "ok"
    /\ tasks[reply.id].state = "Failed"

InvalidState == {"no_contract", "blocked", "invalid_state"}

\* C25: with the commands run one after the other on tasks created without a
\* contract: a start on a Pending task without blockers and without contract
\* fails with InvalidState and changes nothing; once an edit has set the
\* contract, a start on the Pending task succeeds and leaves it InProgress;
\* and a complete (with a summary) leaves every task that it found Blocked on
\* the completed task alone in Pending and reports its id as unblocked.
C25_Scenario ==
    [][/\ \A t \in DOMAIN tasks :
            (StartReads(t) /\ tasks[t].state = "Pending"
                           /\ is_none(tasks[t].blocked_by)
                           /\ is_none(tasks[t].contract))
                => /\ reply'.cmd = "start"
                   /\ reply'.id = t
                   /\ reply'.status \in InvalidState
                   /\ tasks' = tasks
                   /\ goals' = goals
       /\ \A t \in DOMAIN tasks :
            (StartReads(t) /\ tasks[t].state = "Pending" /\ is_some(tasks[t].contract))
                => reply' = NoReply
       /\ \A p \in Procs :
            (Stepped(p) /\ proc[p].pc = "start_cas")
                => /\ reply' = [cmd |-> "start", id |-> proc[p].task_id,
                                status |-> "ok", ids |-> <<>>]
                   /\ tasks' = [tasks EXCEPT ![proc[p].task_id].state = "InProgress"]
       /\ \A p \in Procs :
            (Stepped(p) /\ proc[p].pc = "complete_cascade"
                        /\ proc'[p].pc = "complete_update_goal")
                => \A i \in DOMAIN proc[p].all_tasks :
                     LET dependent == proc[p].all_tasks[i] IN
                     (/\ dependent.state = "Blocked"
                      /\ dependent.blocked_by = Some(<<proc[p].task_id>>))
                         => /\ tasks[dependent.id].state = "Pending"
                            /\ dependent.id \in Range(proc[p].unblocked)
       /\ \A p \in Procs :
            (Stepped(p) /\ proc[p].pc = "complete_update_goal")
                => /\ reply' = [cmd |-> "complete", id |-> proc[p].task_id,
                                status |-> "ok", ids |-> proc[p].unblocked]
                   /\ tasks' = tasks]_vars

\* The complete of a task without blockers, whose contract an edit has set,
\* has just reported a dependent as unblocked; the dependent is Pending.
C25_Witness ==
    /\ reply.cmd = "complete"
    /\ reply.status = "ok"
    /\ edits > 0
    /\ is_none(tasks[reply.id].blocked_by)
    /\ is_some(tasks[reply.id].contract)
    /\ \E d \in Range(reply.ids) :
          /\ tasks[d].state = "Pending"
          /\ tasks[d].blocked_by = Some(<<reply.id>>)

\* The changes of a task's state that the lifecycle allows.
LegalTransitions ==
    {<<"Pending", "InProgress">>, <<"InProgress", "Completed">>,
     <<"InProgress", "Failed">>, <<"Verifying", "Failed">>,
     <<"Failed", "InProgress">>, <<"Blocked", "Pending">>}

\* C28: under any interleaving every change of a stored task's state is one
\* of Pending to InProgress, InProgress to Completed, InProgress or Verifying
\* to Failed, Failed to InProgress, Blocked to Pending: a Completed task stays
\* Completed and an InProgress task never returns to Pending.
C28_LegalTransitions ==
    [][\A t \in DOMAIN tasks :
         tasks'[t].state # tasks[t].state
             => <<tasks[t].state, tasks'[t].state>> \in LegalTransitions]_vars

\* C29: over the life of a task at most one start reports success for it,
\* under any interleaving of create, start, complete, fail and retry: no task
\* is counted twice among the successful starts.
C29_StartedOnce ==
    \A t \in BagToSet(started) : CopiesIn(t, started) <= 1

\* No command is under way.
Quiescent == \A p \in Procs : proc[p].pc = "idle"

\* Every id in the blocked_by of task t refers to a Completed task.
BlockersCompleted(t) ==
    /\ is_some(tasks[t].blocked_by)
    /\ \A b \in Range(unwrap(tasks[t].blocked_by)) :
          b \in DOMAIN tasks /\ tasks[b].state = "Completed"

WillEvaluate(p, d) ==
    /\ proc[p].task_id \in Range(unwrap(tasks[d].blocked_by))
    /\ \/ proc[p].pc \in BeforeCascade
       \/ /\ proc[p].pc = "complete_cascade"
          /\ \E i \in PendingUnblocks(p) : proc[p].all_tasks[i].id = d

\* C32: with every task created before any is started, a task D that has
\* blockers, all of them Completed, is Blocked only while a complete of one
\* of its blockers has still to evaluate it: once the completes of its
\* blockers have returned, in whatever interleaving they ran, D is not
\* Blocked.  The step that takes D out of Blocked is a cascade step of one of
\* those completes, which puts D's id on its unblocked list, and the list is
\* what the command reports.
C32_RacingCompletesUnblock ==
    [][/\ \A d \in DOMAIN tasks' :
            (/\ tasks'[d].state = "Blocked"
             /\ is_some(tasks'[d].blocked_by)
             /\ unwrap(tasks'[d].blocked_by) # <<>>
             /\ \A b \in Range(unwrap(tasks'[d].blocked_by)) :
                   tasks'[b].state = "Completed")
                => \E p \in Procs : WillEvaluate(p, d)'
       /\ \A d \in DOMAIN tasks :
            (tasks[d].state = "Blocked" /\ tasks'[d].state # "Blocked")
                => \E p \in Procs :
                      /\ proc[p].pc = "complete_cascade"
                      /\ proc[p].task_id \in Range(unwrap(tasks[d].blocked_by))
                      /\ proc'[p].unblocked = Append(proc[p].unblocked, d)
       /\ \A p \in Procs :
            (proc[p].pc = "complete_cascade" /\ proc'[p].pc = "complete_update_goal")
                => proc'[p].unblocked = proc[p].unblocked
       /\ \A p \in Procs :
            (Stepped(p) /\ proc[p].pc = "complete_update_goal")
                => /\ reply'.cmd = "complete"
                   /\ reply'.ids = proc[p].unblocked]_vars

\* The completes of the two blockers of a task have overlapped: one has just
\* returned and reports the task as unblocked, the other is at its last
\* statement and has not unblocked it.
C32_Witness ==
    /\ reply.cmd = "complete"
    /\ reply.status = "ok"
    /\ \E d \in Range(reply.ids) : \E q \in Procs :
          /\ Len(unwrap(tasks[d].blocked_by)) = 2
          /\ reply.id \in Range(unwrap(tasks[d].blocked_by))
          /\ proc[q].pc = "complete_update_goal"
          /\ proc[q].task_id \in Range(unwrap(tasks[d].blocked_by)) \ {reply.id}
          /\ d \notin Range(proc[q].unblocked)
          /\ tasks[d].state # "Blocked"

\* Where complete stands after it has won its conditional write.
AfterCompleteCas ==
    BeforeCascade \cup {"complete_cascade", "complete_refresh", "complete_update_goal"}

\* p is about to make the conditional write of complete and q that of fail,
\* on the same task, which both have read as InProgress.
CompleteFailRace(p, q) ==
    /\ p # q
    /\ proc[p].pc = "complete_cas"
    /\ proc[q].pc = "fail_cas"
    /\ proc[p].task_id = proc[q].task_id
    /\ tasks[proc[p].task_id].state = "InProgress"

\* C33: when complete and fail race on the same InProgress task, the first
\* of the two conditional writes wins: complete leaves the task Completed
\* with a result and goes on to report success, fail leaves it Failed without
\* a result and reports success. The write of the other then finds the task
\* Completed (Failed), changes nothing and reports the conflict error, so
\* the task stays Completed with a result, or Failed without one.
C33_CompleteFailRace ==
    [][\A p \in Procs :
         LET t == proc[p].task_id IN
         /\ \A q \in Procs : CompleteFailRace(p, q) =>
               /\ Stepped(p) =>
                    /\ tasks'[t].state = "Completed"
                    /\ is_some(tasks'[t].result)
                    /\ proc'[p].pc = "complete_refetch"
               /\ Stepped(q) =>
                    /\ tasks'[t].state = "Failed"
                    /\ is_none(tasks'[t].result)
                    /\ reply' = [cmd |-> "fail", id |-> t, status |-> "ok", ids |-> <<>>]
         /\ (proc[p].pc = "complete_cas" /\ tasks[t].state = "Failed" /\ Stepped(p)) =>
               /\ reply'.cmd = "complete"
               /\ reply'.status = "conflict"
               /\ tasks' = tasks
               /\ is_none(tasks[t].result)
         /\ (proc[p].pc = "fail_cas" /\ tasks[t].state = "Completed" /\ Stepped(p)) =>
               /\ reply'.cmd = "fail"
               /\ reply'.status = "conflict"
               /\ tasks' = tasks
               /\ is_some(tasks[t].result)
         /\ (proc[p].pc = "complete_update_goal" /\ Stepped(p)) =>
               /\ reply'.cmd = "complete"
               /\ reply'.status = "ok"]_vars

\* A fail has just lost the race: it reports the conflict on a task that the
\* complete of the other process, still under way, has made Completed.
C33_Witness ==
    /\ reply.cmd = "fail"
    /\ reply.status = "conflict"
    /\ tasks[reply.id].state = "Completed"
    /\ is_some(tasks[reply.id].result)
    /\ \E p \in Procs : /\ proc[p].pc \in AfterCompleteCas
                        /\ proc[p].task_id = reply.id

\* C34: in every state in which no command is under way, a goal that has at
\* least one task and all of whose tasks are Completed is itself Completed,
\* with completed_at set.
C34_AllCompletedGoalCompleted ==
    Quiescent =>
       \A g \in DOMAIN goals :
          LET ts == list_tasks(goals[g].id) IN
          (ts # <<>> /\ \A i \in DOMAIN ts : ts[i].state = "Completed") =>
             /\ goals[g].state = "Completed"
             /\ is_some(goals[g].completed_at)

\* Some task of the goal is Failed.
HasFailedTask(goal_id) ==
    \E i \in DOMAIN tasks : tasks[i].goal_id = goal_id /\ tasks[i].state = "Failed"

C36_BlockedByEarlierTaskOfGoal ==
    \A t \in DOMAIN tasks :
       \A b \in Range(unwrap_or(tasks[t].blocked_by, <<>>)) :
          /\ b \in DOMAIN tasks
          /\ b < t
          /\ tasks[b].goal_id = tasks[t].goal_id

\* In a store with two goals a task with a blocker has gone through the
\* cascade, start and complete.
C36_Witness ==
    \E t \in DOMAIN tasks :
       /\ unwrap_or(tasks[t].blocked_by, <<>>) # <<>>
       /\ tasks[t].state = "Completed"
       /\ Len(goals) = MaxSharedGoals

\* The rollup with the two tests in the other order: any Failed first.
RollupFailedFirst(goal, all_tasks) ==
    LET all_completed == \A i \in DOMAIN all_tasks : all_tasks[i].state = "Completed"
        any_failed == \E i \in DOMAIN all_tasks : all_tasks[i].state = "Failed"
    IN IF any_failed
       THEN [goal EXCEPT !.state = "Failed"]
       ELSE IF all_completed
       THEN [goal EXCEPT !.state = "Completed", !.completed_at = Some("now")]
       ELSE goal

\* C38: on the list that the rollup of complete re-reads, 'every task is
\* Completed' and 'some task is Failed' are never both true, and the goal
\* copy the rollup produces is the one it would produce with the any-Failed
\* test made first.
C38_RollupOrderIrrelevant ==
    [][\A p \in Procs :
         (proc[p].pc = "complete_cascade" /\ proc'[p].pc = "complete_update_goal") =>
            LET goal == unwrap(proc[p].goal)
                all_tasks == list_tasks(goal.id)
            IN /\ ~(/\ \A i \in DOMAIN all_tasks : all_tasks[i].state = "Completed"
                    /\ \E i \in DOMAIN all_tasks : all_tasks[i].state = "Failed")
               /\ proc'[p].goal = Some(RollupFailedFirst(goal, all_tasks))]_vars

\* A rollup has found a Failed task next to the task just completed and has
\* set its goal copy Failed.
C38_Witness ==
    \E p \in Procs :
       /\ proc[p].pc = "complete_update_goal"
       /\ proc[p].rollup = "failed"
       /\ unwrap(proc[p].goal).state = "Failed"
       /\ HasFailedTask(unwrap(proc[p].goal).id)
       /\ tasks[proc[p].task_id].state = "Completed"

\* C37: for a goal whose tasks all have a contract and all exist before the
\* first start, when every Pending task is eventually started, every
\* InProgress task eventually completed, no task is failed and no process is
\* stopped part-way, every task eventually reaches Completed and the goal is
\* eventually Completed and stays so.
C37_EventuallyCompleted ==
    /\ \A t \in 1..MaxLiveTasks :
          <>(t \in DOMAIN tasks /\ tasks[t].state = "Completed")
    /\ <>[](goals # <<>> /\ goals[1].state = "Completed")

\* ---------------------------------------------------------------- system

RECURSIVE SumRetries(_)
SumRetries(ts) == IF ts = <<>> THEN 0 ELSE Head(ts).retry_count + SumRetries(Tail(ts))

CreateCmds(p, max_tasks) ==
    \/ Len(goals) < MaxGoals /\ GoalCreate(p)
    \/ /\ Len(tasks) + CreatesInFlight < max_tasks
       /\ \E g \in GoalIds, b \in BOOLEAN : TaskCreateGetGoal(p, g, b)
    \/ \E l \in BlockedByLists : TaskCreateValidate(p, l)
    \/ \E c \in ContractArgs : TaskCreateInsert(p, c)
    \/ TaskCreateUpdateGoal(p)

StartCmds(p, max_tasks) ==
    \/ \E t \in 1..max_tasks : StartGetTask(p, t)
    \/ StartTransition(p)

CompleteCmds(p, max_tasks) ==
    \/ \E t \in 1..max_tasks : CompleteGetTask(p, t)
    \/ \E a \in CompleteArgs : CompleteTask(p, a)
    \/ CompleteRefetch(p)
    \/ CompleteGetGoal(p)
    \/ CompleteListTasks(p)
    \/ CompleteUpdateTask(p)
    \/ CompleteRefresh(p)
    \/ CompleteUpdateGoal(p)

FailCmds(p, max_tasks) ==
    \/ \E t \in 1..max_tasks : FailGetTask(p, t)
    \/ FailTransition(p)

RetryCmds(p, max_tasks, max_retry) ==
    \/ SumRetries(tasks) < max_retry /\ \E t \in 1..max_tasks : RetryGetTask(p, t)
    \/ RetryTask(p)

EditCmds(p, max_tasks, max_edits) ==
    \/ edits < max_edits /\ \E t \in 1..max_tasks : EditGetTask(p, t)
    \/ \E c \in ContractArgs, b \in EditBlockedByArgs : EditWrite(p, c, b)

\* Every command, under the bounds of Spec.
Next ==
    \/ Ack
    \/ \E p \in Procs :
         \/ CreateCmds(p, MaxTasks)
         \/ StartCmds(p, MaxTasks)
         \/ CompleteCmds(p, MaxTasks)
         \/ FailCmds(p, MaxTasks)
         \/ RetryCmds(p, MaxTasks, MaxRetry)
         \/ EditCmds(p, MaxTasks, MaxEdits)

Spec == Init /\ [][Next]_vars

\* Edits racing with each other and with the lifecycle of the edited tasks.
NextEdit ==
    \/ Ack
    \/ \E p \in Procs :
         \/ CreateCmds(p, MaxEditTasks)
         \/ StartCmds(p, MaxEditTasks)
         \/ CompleteCmds(p, MaxEditTasks)
         \/ EditCmds(p, MaxEditTasks, MaxRacingEdits)

SpecEdit == Init /\ [][NextEdit]_vars

\* Dependents with two blockers, no edit and no retry.
NextCascade ==
    \/ Ack
    \/ \E p \in Procs :
         \/ CreateCmds(p, MaxCascadeTasks)
         \/ StartCmds(p, MaxCascadeTasks)
         \/ CompleteCmds(p, MaxCascadeTasks)
         \/ FailCmds(p, MaxCascadeTasks)

SpecCascade == Init /\ [][NextCascade]_vars

\* No other process has a command in progress.
Serial(p) == \A q \in Procs \ {p} : proc[q].pc = "idle"

\* The processes that have loaded a task for an edit and not yet written it.
Editing == {q \in Procs : proc[q].pc = "edit_write"}

\* Every task of the run is in the store and no create is in flight.
CascadeEditCreated == Len(tasks) = MaxCascadeTasks /\ CreatesInFlight = 0

\* Three tasks and edits.  The tasks are created first, one command at a
\* time; then start, complete and edit run interleaved, and an edit, once it
\* has loaded its task, writes it before any other statement runs (the
\* behaviours in which no statement falls between the two halves of an edit).
NextCascadeEdit ==
    \/ Editing = {} /\ Ack
    \/ \E p \in Procs :
         \/ Serial(p) /\ CreateCmds(p, MaxCascadeTasks)
         \/ Editing = {} /\ CascadeEditCreated /\ StartCmds(p, MaxCascadeTasks)
         \/ Editing = {} /\ CascadeEditCreated /\ CompleteCmds(p, MaxCascadeTasks)
         \/ /\ Editing = {}
            /\ CascadeEditCreated
            /\ edits < MaxCascadeEdits
            /\ \E t \in 1..MaxCascadeTasks : EditGetTask(p, t)
         \/ \E c \in ContractArgs, b \in EditBlockedByArgs : EditWrite(p, c, b)

SpecCascadeEdit == Init /\ [][NextCascadeEdit]_vars

\* Every task of the run is in the store and no create is in flight.
AllCreated == Len(tasks) = MaxChainTasks /\ CreatesInFlight = 0

\* Four tasks, each with a contract, created one command at a time; start and
\* complete run, interleaved, once all four exist.
NextChain ==
    \/ Ack
    \/ \E p \in Procs :
         \/ Len(goals) < MaxGoals /\ GoalCreate(p)
         \/ /\ Len(tasks) + CreatesInFlight < MaxChainTasks
            /\ \A q \in Procs \ {p} : proc[q].pc = "idle"
            /\ \E g \in GoalIds, b \in BOOLEAN : TaskCreateGetGoal(p, g, b)
         \/ \E l \in BlockedByLists : TaskCreateValidate(p, l)
         \/ TaskCreateInsert(p, Some("contract"))
         \/ TaskCreateUpdateGoal(p)
         \/ AllCreated /\ StartCmds(p, MaxChainTasks)
         \/ AllCreated /\ CompleteCmds(p, MaxChainTasks)

SpecChain == Init /\ [][NextChain]_vars

\* Two goals in one store: creates in both, start and complete.
NextGoals ==
    \/ Ack
    \/ \E p \in Procs :
         \/ Len(goals) < MaxSharedGoals /\ GoalCreate(p)
         \/ /\ Len(tasks) + CreatesInFlight < MaxSharedTasks
            /\ \E g \in 1..MaxSharedGoals, b \in BOOLEAN : TaskCreateGetGoal(p, g, b)
         \/ \E l \in BlockedByLists : TaskCreateValidate(p, l)
         \/ \E c \in ContractArgs : TaskCreateInsert(p, c)
         \/ TaskCreateUpdateGoal(p)
         \/ StartCmds(p, MaxSharedTasks)
         \/ CompleteCmds(p, MaxSharedTasks)

SpecGoals == Init /\ [][NextGoals]_vars

\* Dependents with two blockers, fail and retry, no edit; every task is
\* created with a contract.
NextCascadeRetry ==
    \/ Ack
    \/ \E p \in Procs :
         \/ Len(goals) < MaxGoals /\ GoalCreate(p)
         \/ /\ Len(tasks) + CreatesInFlight < MaxCascadeTasks
            /\ \E g \in GoalIds, b \in BOOLEAN : TaskCreateGetGoal(p, g, b)
         \/ \E l \in BlockedByLists : TaskCreateValidate(p, l)
         \/ TaskCreateInsert(p, Some("contract"))
         \/ TaskCreateUpdateGoal(p)
         \/ StartCmds(p, MaxCascadeTasks)
         \/ CompleteCmds(p, MaxCascadeTasks)
         \/ FailCmds(p, MaxCascadeTasks)
         \/ RetryCmds(p, MaxCascadeTasks, MaxCascadeRetry)

SpecCascadeRetry == Init /\ [][NextCascadeRetry]_vars

\* Every task of the run is in the store, each with its dependencies given
\* at creation.
CrashSetupDone == Len(tasks) = MaxCrashTasks /\ CreatesInFlight = 0

\* Commands run one at a time; the tasks are created first, then started and
\* completed; a complete may stop before it evaluates the dependents.
NextCrash ==
    \/ Ack
    \/ \E p \in Procs :
         \/ Serial(p) /\ CreateCmds(p, MaxCrashTasks)
         \/ Serial(p) /\ CrashSetupDone /\ StartCmds(p, MaxCrashTasks)
         \/ Serial(p) /\ CrashSetupDone /\ CompleteCmds(p, MaxCrashTasks)
         \/ Crash(p)

SpecCrash == Init /\ [][NextCrash]_vars

\* Every command, each run to its end before the next one begins.
NextSerial ==
    \/ Ack
    \/ \E p \in Procs :
         \/ Serial(p) /\ CreateCmds(p, MaxSerialTasks)
         \/ Serial(p) /\ StartCmds(p, MaxSerialTasks)
         \/ Serial(p) /\ CompleteCmds(p, MaxSerialTasks)
         \/ Serial(p) /\ FailCmds(p, MaxSerialTasks)
         \/ Serial(p) /\ RetryCmds(p, MaxSerialTasks, MaxSerialRetry)
         \/ Serial(p) /\ EditCmds(p, MaxSerialTasks, MaxSerialEdits)

SpecSerial == Init /\ [][NextSerial]_vars

\* The commands of the end-to-end scenario, one at a time: every task is
\* created without a contract, so that a task is startable only after an
\* edit has set its contract.
NextScenario ==
    \/ Ack
    \/ \E p \in Procs :
         \/ Serial(p) /\ Len(goals) < MaxGoals /\ GoalCreate(p)
         \/ /\ Serial(p)
            /\ Len(tasks) + CreatesInFlight < MaxScenarioTasks
            /\ \E g \in GoalIds, b \in BOOLEAN : TaskCreateGetGoal(p, g, b)
         \/ Serial(p) /\ \E l \in BlockedByLists : TaskCreateValidate(p, l)
         \/ Serial(p) /\ TaskCreateInsert(p, None)
         \/ Serial(p) /\ TaskCreateUpdateGoal(p)
         \/ Serial(p) /\ StartCmds(p, MaxScenarioTasks)
         \/ Serial(p) /\ CompleteCmds(p, MaxScenarioTasks)
         \/ Serial(p) /\ EditCmds(p, MaxScenarioTasks, MaxScenarioEdits)

SpecScenario == Init /\ [][NextScenario]_vars

\* Every task of the run is in the store and no create is in flight.
StartsCreated == Len(tasks) = MaxStartsTasks /\ CreatesInFlight = 0

\* Three tasks, each created with a contract, one command at a time, the
\* --blocked-by of a create naming the first two; then start, complete, fail
\* and retry run interleaved; the caller counts the starts reported as
\* successes.
NextStarts ==
    \/ AckNoted
    \/ \E p \in Procs :
         \/ Len(goals) < MaxGoals /\ GoalCreate(p)
         \/ /\ Len(tasks) + CreatesInFlight < MaxStartsTasks
            /\ Serial(p)
            /\ \E g \in GoalIds, b \in BOOLEAN : TaskCreateGetGoal(p, g, b)
         \/ TaskCreateValidate(p, <<1, 2>>)
         \/ TaskCreateInsert(p, Some("contract"))
         \/ TaskCreateUpdateGoal(p)
         \/ StartsCreated /\ StartCmds(p, MaxStartsTasks)
         \/ StartsCreated /\ CompleteCmds(p, MaxStartsTasks)
         \/ StartsCreated /\ FailCmds(p, MaxStartsTasks)
         \/ StartsCreated /\ RetryCmds(p, MaxStartsTasks, MaxStartsRetry)

SpecStarts == Init /\ [][NextStarts]_vars

\* Two tasks and the lifecycle commands create, start, complete, fail and
\* retry, interleaved statement by statement; no edit runs.
NextRace ==
    \/ Ack
    \/ \E p \in Procs :
         \/ CreateCmds(p, MaxRaceTasks)
         \/ StartCmds(p, MaxRaceTasks)
         \/ CompleteCmds(p, MaxRaceTasks)
         \/ FailCmds(p, MaxRaceTasks)
         \/ RetryCmds(p, MaxRaceTasks, MaxRaceRetry)

SpecRace == Init /\ [][NextRace]_vars

\* Every task of the run is in the store and no create is in flight.
LiveCreated == Len(tasks) = MaxLiveTasks /\ CreatesInFlight = 0

\* A task create is issued.
LiveCreate(p) ==
    /\ Len(tasks) + CreatesInFlight < MaxLiveTasks
    /\ \E g \in GoalIds, b \in BOOLEAN : TaskCreateGetGoal(p, g, b)

\* start (complete) of task t is issued, once every task exists.
LiveStart(p, t) == LiveCreated /\ StartGetTask(p, t)

LiveComplete(p, t) == LiveCreated /\ CompleteGetTask(p, t)

\* The command that process p runs executes its next statement (a blocked_by
\* given to create names at least one task).
LiveContinue(p) ==
    \/ \E l \in BlockedByLists \ {<<>>} : TaskCreateValidate(p, l)
    \/ TaskCreateInsert(p, Some("contract"))
    \/ TaskCreateUpdateGoal(p)
    \/ StartTransition(p)
    \/ \E a \in CompleteArgs : CompleteTask(p, a)
    \/ CompleteRefetch(p)
    \/ CompleteGetGoal(p)
    \/ CompleteListTasks(p)
    \/ CompleteUpdateTask(p)
    \/ CompleteRefresh(p)
    \/ CompleteUpdateGoal(p)

\* One goal whose tasks all have a contract and all exist before the first
\* start; create, start and complete only, interleaved statement by statement.
NextLive ==
    \/ Ack
    \/ \E p \in Procs :
         \/ Len(goals) < MaxGoals /\ GoalCreate(p)
         \/ LiveCreate(p)
         \/ \E t \in 1..MaxLiveTasks : LiveStart(p, t)
         \/ \E t \in 1..MaxLiveTasks : LiveComplete(p, t)
         \/ LiveContinue(p)

\* What the run is assumed to do: reports are read; a process that has begun
\* a command runs it to its end (no process is stopped part-way); the goal
\* and its tasks do get created; a start is issued for every task that is
\* Pending and a complete for every task that is InProgress, again and again
\* while it stays so.  The conditions are strong (SF): a statement can run
\* only when the report of the previous command has been read, so it is
\* enabled again and again rather than without interruption.
LiveFairness ==
    /\ WF_vars(Ack)
    /\ SF_vars(\E p \in Procs : Len(goals) < MaxGoals /\ GoalCreate(p))
    /\ SF_vars(\E p \in Procs : LiveCreate(p) /\ proc'[p].pc = "create_insert")
    /\ \A p \in Procs : SF_vars(LiveContinue(p))
    /\ \A t \in 1..MaxLiveTasks :
          SF_vars(\E p \in Procs : /\ LiveCreated
                                   /\ tasks[t].state = "Pending"
                                   /\ LiveStart(p, t))
    /\ \A t \in 1..MaxLiveTasks :
          SF_vars(\E p \in Procs : /\ LiveCreated
                                   /\ tasks[t].state = "InProgress"
                                   /\ LiveComplete(p, t))

SpecLive == Init /\ [][NextLive]_vars /\ LiveFairness

\* topo_sort called once, on any of the argument values.
InitTopo ==
    /\ goals = <<>>
    /\ tasks = <<>>
    /\ proc = [p \in Procs |-> Idle]
    /\ reply = NoReply
    /\ edits = 0
    /\ started = EmptyBag
    /\ call \in {TopoCall(ts) : ts \in TopoInputs}

NextTopo ==
    \/ \E queue \in UNION {[1..n -> TopoIds] : n \in 0..MaxTopoTasks} : TopoBuild(queue)
    \/ TopoPop
    \/ TopoReturn

SpecTopo == InitTopo /\ [][NextTopo]_vars

\* find_similar_id called once, on any of the argument values.
InitSimilar ==
    /\ goals = <<>>
    /\ tasks = <<>>
    /\ proc = [p \in Procs |-> Idle]
    /\ reply = NoReply
    /\ edits = 0
    /\ started = EmptyBag
    /\ call \in {SimilarCall(in) : in \in SimilarInputs}

NextSimilar ==
    \/ SimilarEmpty
    \/ SimilarEnter
    \/ SimilarNext
    \/ SimilarReturn

SpecSimilar == InitSimilar /\ [][NextSimilar]_vars

====
